---- MODULE Spec2Model ----
(***************************************************************************)
(* State-machine model of the LiveDash ingestion engine (src/src/App.jsx): *)
(* the React component's state (mode, apiUrl, intervalMs, running, latest, *)
(* rows), its refs (baseRef, seqRef), the interval timers armed by its two *)
(* effects, and the remote fetches whose async callbacks are suspended.    *)
(*                                                                         *)
(* Numbers: a JS number x is modelled by the integer x * Scale             *)
(* (Scale = 10^5), so that every perturbation of the generator is an       *)
(* integer.  A string produced by toFixed(2) is modelled by the record     *)
(* [s |-> "fixed", c |-> hundredths]; the string "NaN" by StrNaN.          *)
(* Time: `now` counts the timer firings so far and is the clock's reading; *)
(* an ISO timestamp is identified with the instant it names.               *)
(***************************************************************************)
EXTENDS Integers, Sequences, FiniteSets, TLC

VARIABLES mode, apiUrl, intervalMs, running, latest, rows, baseRef, seqRef,
          mockTimer, apiTimer, inflight, now,
          \* the content of the file last handed to download(), << >> before
          downloaded,
          \* for each reading of rows, the timer firing that produced it
          rowTicks

vars == <<mode, apiUrl, intervalMs, running, latest, rows, baseRef, seqRef,
          mockTimer, apiTimer, inflight, now, downloaded, rowTicks>>

----------------------------------------------------------------------------
(* Bounds of the model *)

\* timer firings explored
MaxTicks == 2
\* suspended async callbacks explored at once
MaxInFlight == 2
\* size of the large remote response (above the history capacity)
BulkSize == 201
\* number of Math.random() streams a synthetic tick may draw
NumStreams == 2
\* timer firings explored when the synthetic generator runs alone
SyntheticTicks == 6

----------------------------------------------------------------------------
(* Program constants *)

SENSOR_IDS == <<"S1", "S2", "S3", "S4">>

\* .slice(0, 200)
HistoryCap == 200

\* useState(800) and the fallback of `Number(e.target.value) || 800`
DefaultIntervalMs == 800

DefaultApiUrl == "https://example.com/api/latest"

\* fixed-point scale of modelled JS numbers
Scale == 100000

\* { p: 101.3, t: 28.0, h: 55.0 }
InitialBaseline == [p |-> 10130000, t |-> 2800000, h |-> 5500000]

----------------------------------------------------------------------------
(* Pure functions *)

Max(a, b) == IF a >= b THEN a ELSE b
Min(a, b) == IF a <= b THEN a ELSE b

\* clamp without its upper bound
clampLowerOnly(n, a, b) == Max(a, n)

\* clamp(n, a, b) = Math.max(a, Math.min(b, n))
clamp(n, a, b) == Max(a, Min(b, n))

\* the string "NaN"
StrNaN == [s |-> "NaN", c |-> 0]

\* x.toFixed(2) for a finite x (scaled): nearest hundredth, ties away from 0
toFixed2(x) ==
  IF x >= 0 THEN [s |-> "fixed", c |-> (x + Scale \div 200) \div (Scale \div 100)]
            ELSE [s |-> "fixed", c |-> 0 - (((0 - x) + Scale \div 200) \div (Scale \div 100))]

\* nowISO() when the clock reads t
nowISO(t) == t

----------------------------------------------------------------------------
(* Export: a document is the sequence of its lines (joined by "\n"), a line *)
(* the sequence of its cells (joined by ","), a cell a text, quoted or not *)

\* a header cell, written bare
Bare(text) == [quoted |-> FALSE, text |-> text]

\* `"${String(v)}"`
Quoted(v) == [quoted |-> TRUE, text |-> v]

\* toCSV(rows)
toCSV(rs) ==
  LET header == <<"timestamp", "sensor", "pressure_kPa", "temp_C",
                  "humidity_pct">>
  IN  <<[c \in DOMAIN header |-> Bare(header[c])]>>
        \o [n \in DOMAIN rs |->
              <<Quoted(rs[n].ts), Quoted(rs[n].sensor), Quoted(rs[n].p),
                Quoted(rs[n].t), Quoted(rs[n].h)>>]

\* a copy in place of the reversed copy
NotReversed(rs) == rs

\* [...rows].reverse()
Reversed(rs) == [n \in DOMAIN rs |-> rs[Len(rs) + 1 - n]]

----------------------------------------------------------------------------
(* JSON values of a remote response *)

JNumber(x)    == [ty |-> "number", v |-> x]
\* a string holding a decimal numeral, e.g. "20.5"
JNumeric(x)   == [ty |-> "numeric string", v |-> x]
\* a string that is no numeral, e.g. "bad"
JText         == [ty |-> "string", v |-> 0]
JNull         == [ty |-> "null", v |-> 0]
\* a property that is absent from its object
JUndefined    == [ty |-> "undefined", v |-> 0]
\* the string ""
JEmpty        == [ty |-> "empty string", v |-> 0]

\* the JS number NaN
NaN == [nan |-> TRUE, v |-> 0]

\* Number(j)
Number(j) ==
  CASE j.ty = "number"         -> [nan |-> FALSE, v |-> j.v]
    [] j.ty = "numeric string" -> [nan |-> FALSE, v |-> j.v]
    [] j.ty = "null"           -> [nan |-> FALSE, v |-> 0]
    [] j.ty = "empty string"   -> [nan |-> FALSE, v |-> 0]
    [] OTHER                   -> NaN

\* Number(j).toFixed(2)
NumberToFixed2(j) == IF Number(j).nan THEN StrNaN ELSE toFixed2(Number(j).v)

\* String(sensor || ""), for a sensor property that is a string or absent
SensorKey(j) == IF j.ty = "string" THEN j.s ELSE ""

JSensor(name) == [ty |-> "string", s |-> name]
NoSensor      == [ty |-> "undefined", s |-> ""]

\* one element of data.readings: an object, or null
Entry(sensor, p, t, h) ==
  [ty |-> "object", sensor |-> sensor, p |-> p, t |-> t, h |-> h]
NullEntry ==
  [ty |-> "null", sensor |-> NoSensor, p |-> JUndefined, t |-> JUndefined,
   h |-> JUndefined]

\* the README's example reading {"sensor":"S1","p":101.2,"t":28.1,"h":54.9}
GoodEntry(name) ==
  Entry(JSensor(name), JNumber(10120000), JNumber(2810000), JNumber(5490000))
\* the reading {"sensor":"S1","p":"bad","t":20,"h":50}
BadEntry(name) ==
  Entry(JSensor(name), JText, JNumber(2000000), JNumber(5000000))

\* the i-th reading of the large response
BulkEntry(i) ==
  Entry(JSensor(SENSOR_IDS[((i - 1) % Len(SENSOR_IDS)) + 1]),
        JNumber(10000000 + i * 1234), JNumeric(2000000 + i * 567), JNull)

\* data.readings: an array, a value that is no array, or absent
Readings(items) == [ty |-> "array", items |-> items]
NotAnArray      == [ty |-> "string", items |-> << >>]
NoReadings      == [ty |-> "undefined", items |-> << >>]

\* data.ts: a non-empty string naming the instant v, or absent
JTs(v) == [ty |-> "string", v |-> v]
NoTs   == [ty |-> "undefined", v |-> 0]

\* the parsed body: an object, or null
Body(ts, readings) == [ty |-> "object", ts |-> ts, readings |-> readings]
NullBody           == [ty |-> "null", ts |-> NoTs, readings |-> NoReadings]

\* instant named by the ts of the modelled responses
RemoteTs == 1000

\* the large response: BulkSize readings, more than the history holds
BulkBody == Body(JTs(RemoteTs), Readings([i \in 1..BulkSize |-> BulkEntry(i)]))

\* the README's example response
GoodBody == Body(JTs(RemoteTs), Readings(<<GoodEntry("S1")>>))

\* parsed bodies a response may carry
Bodies ==
  { NullBody,
    Body(NoTs, NoReadings),
    Body(NoTs, NotAnArray),
    Body(JTs(RemoteTs), Readings(<< >>)),
    GoodBody,
    Body(NoTs, Readings(<<BadEntry("S1")>>)),
    Body(NoTs, Readings(<<GoodEntry("S2"), BadEntry("S1"), GoodEntry("S9")>>)),
    Body(NoTs, Readings(<<GoodEntry("S3"), NullEntry>>)),
    Body(NoTs, Readings(<<GoodEntry("S4"),
                          Entry(NoSensor, JNumber(0 - 1005000), JNumeric(5000),
                                JNull)>>)),
    Body(NoTs, Readings(<<GoodEntry("S2"),
                          Entry(JSensor("S2"), JNumber(10250000),
                                JNumber(2900000), JNumber(5600000))>>)) }

\* what `await res.json()` yields when it does not reject: the parsed body
\* of a response of some HTTP status
Response(st, d) == [status |-> st, data |-> d]

\* responses of the remote endpoint: any body with 200 OK, and bodies that
\* parse with 500
Responses ==
  {Response(200, d) : d \in Bodies}
    \cup {Response(500, GoodBody), Response(500, Body(NoTs, NoReadings))}

\* responses of an endpoint that answers 200 OK with the example body
GoodResponses == {Response(200, GoodBody)}

\* responses of an endpoint that fails at times: the example body with 200
\* and with 500, and a null body
FlakyResponses ==
  {Response(200, GoodBody), Response(500, GoodBody), Response(200, NullBody)}

\* responses of an endpoint that serves the large body
BulkResponses == {Response(200, BulkBody), Response(200, GoodBody)}

----------------------------------------------------------------------------
(* Math.random() *)

\* the j-th Math.random() of a tick drawing stream k, in thousandths:
\* stream 1 always draws 0, stream 2 always 0.999, the others vary with j
Draw(k, j) ==
  CASE k = 1 -> 0
    [] k = 2 -> 999
    [] OTHER -> (j * k * 83) % 1000

\* (Math.random() - 0.5) * delta, for delta in hundredths
Perturbation(r, delta) == (r - 500) * delta

----------------------------------------------------------------------------
(* The state window *)

\* {}
EmptyLatest == [s \in {} |-> 0]

\* the updater without the spread of prev: u = {}
MergeLatestNoSpread(prev, batch) ==
  [s \in {batch[i].sensor : i \in DOMAIN batch} |->
     batch[CHOOSE i \in DOMAIN batch :
             /\ batch[i].sensor = s
             /\ \A j \in (i + 1)..Len(batch) : batch[j].sensor # s]]

\* the updater keeping the first reading of each sensor of the batch
MergeLatestFirstWins(prev, batch) ==
  [s \in DOMAIN prev \cup {batch[i].sensor : i \in DOMAIN batch} |->
     IF \A i \in DOMAIN batch : batch[i].sensor # s THEN prev[s]
     ELSE batch[CHOOSE i \in DOMAIN batch :
                  /\ batch[i].sensor = s
                  /\ \A j \in 1..(i - 1) : batch[j].sensor # s]]

\* the updater passed to setLatest: u = {...prev}, then
\* for (const r of batch) u[r.sensor] = r, which leaves under each sensor of
\* the batch the last reading the loop assigned to it
MergeLatest(prev, batch) ==
  [s \in DOMAIN prev \cup {batch[i].sensor : i \in DOMAIN batch} |->
     IF \A i \in DOMAIN batch : batch[i].sensor # s THEN prev[s]
     ELSE batch[CHOOSE i \in DOMAIN batch :
                  /\ batch[i].sensor = s
                  /\ \A j \in (i + 1)..Len(batch) : batch[j].sensor # s]]

\* the slice taken one element too far
MergeRowsOffByOne(prev, batch) ==
  LET all == batch \o prev
  IN  SubSeq(all, 1, Min(Len(all), HistoryCap + 1))

\* the updater passed to setRows: [...batch, ...prev].slice(0, 200)
MergeRows(prev, batch) ==
  LET all == batch \o prev
  IN  SubSeq(all, 1, Min(Len(all), HistoryCap))

----------------------------------------------------------------------------
(* The synthetic generator *)

\* baseRef.current after the loop of a tick that draws stream k
Perturbed(base, k) ==
  [id \in DOMAIN base |->
     LET i == CHOOSE n \in DOMAIN SENSOR_IDS : SENSOR_IDS[n] = id
         j == 3 * (i - 1)
     IN  [p |-> clamp(base[id].p + Perturbation(Draw(k, j + 1), 80),
                      90 * Scale, 120 * Scale),
          t |-> clamp(base[id].t + Perturbation(Draw(k, j + 2), 35),
                      18 * Scale, 45 * Scale),
          h |-> clamp(base[id].h + Perturbation(Draw(k, j + 3), 120),
                      20 * Scale, 90 * Scale)]]

\* the loop with seq: seqRef.current++ in place of the pre-increment
MockBatchPostIncrement(base, seq0, ts) ==
  [i \in DOMAIN SENSOR_IDS |->
     [ts |-> ts, seq |-> seq0 + i - 1, sensor |-> SENSOR_IDS[i],
      p |-> toFixed2(base[SENSOR_IDS[i]].p),
      t |-> toFixed2(base[SENSOR_IDS[i]].t),
      h |-> toFixed2(base[SENSOR_IDS[i]].h)]]

\* the batch pushed by the loop, from the perturbed baselines
MockBatch(base, seq0, ts) ==
  [i \in DOMAIN SENSOR_IDS |->
     [ts |-> ts, seq |-> seq0 + i, sensor |-> SENSOR_IDS[i],
      p |-> toFixed2(base[SENSOR_IDS[i]].p),
      t |-> toFixed2(base[SENSOR_IDS[i]].t),
      h |-> toFixed2(base[SENSOR_IDS[i]].h)]]

----------------------------------------------------------------------------
(* The remote adapter *)

\* data.ts || nowISO()
BatchTs(data) ==
  IF data.ts.ty = "string" THEN data.ts.v ELSE nowISO(now)

\* a value that is no array taken as a list of one element
ReadingsOfWrapped(data) ==
  IF data.readings.ty = "array" THEN data.readings.items
  ELSE <<Entry(NoSensor, JUndefined, JUndefined, JUndefined)>>

\* Array.isArray(data.readings) ? data.readings : []
ReadingsOf(data) ==
  IF data.readings.ty = "array" THEN data.readings.items ELSE << >>

\* index of the first element on which the map callback throws (reading a
\* property of null), 0 when it throws on none
ThrowsAt(readings) ==
  IF \E i \in DOMAIN readings : readings[i].ty = "null"
  THEN CHOOSE i \in DOMAIN readings :
         /\ readings[i].ty = "null"
         /\ \A j \in 1..(i - 1) : readings[j].ty # "null"
  ELSE 0

\* the map callback with seq: seqRef.current++ in place of the pre-increment
ApiBatchPostIncrement(readings, seq0, ts) ==
  [i \in DOMAIN readings |->
     [ts |-> ts, seq |-> seq0 + i - 1,
      sensor |-> SensorKey(readings[i].sensor),
      p |-> NumberToFixed2(readings[i].p),
      t |-> NumberToFixed2(readings[i].t),
      h |-> NumberToFixed2(readings[i].h)]]

\* readings.map(r => ({ts, seq: ++seqRef.current, sensor, p, t, h}))
ApiBatch(readings, seq0, ts) ==
  [i \in DOMAIN readings |->
     [ts |-> ts, seq |-> seq0 + i, sensor |-> SensorKey(readings[i].sensor),
      p |-> NumberToFixed2(readings[i].p),
      t |-> NumberToFixed2(readings[i].t),
      h |-> NumberToFixed2(readings[i].h)]]

----------------------------------------------------------------------------
(* The effects *)

NoTimer == [armed |-> FALSE, ms |-> 0, url |-> ""]

\* setInterval(callback, ms), the callback closing over url
SetInterval(ms, url) == [armed |-> TRUE, ms |-> ms, url |-> url]

\* the mock stream effect, deps [mode, running, intervalMs]: its timer after
\* a render that takes the deps from <<m, r, ms>> to <<m2, r2, ms2>>
MockEffect(timer, m, r, ms, m2, r2, ms2) ==
  IF <<m, r, ms>> = <<m2, r2, ms2>> THEN timer
  ELSE IF m2 # "mock" \/ ~r2 THEN NoTimer
  ELSE SetInterval(ms2, "")

\* the api mode effect with apiUrl left out of its deps
ApiEffectStaleUrl(timer, m, r, ms, url, m2, r2, ms2, url2) ==
  IF <<m, r, ms>> = <<m2, r2, ms2>> THEN timer
  ELSE IF m2 # "api" \/ ~r2 THEN NoTimer
  ELSE SetInterval(ms2, url2)

\* the api mode effect, deps [mode, running, intervalMs, apiUrl]
ApiEffect(timer, m, r, ms, url, m2, r2, ms2, url2) ==
  IF <<m, r, ms, url>> = <<m2, r2, ms2, url2>> THEN timer
  ELSE IF m2 # "api" \/ ~r2 THEN NoTimer
  ELSE SetInterval(ms2, url2)

\* a render that commits new control state and runs the effects
Render(m2, r2, ms2, url2) ==
  /\ mode' = m2
  /\ running' = r2
  /\ intervalMs' = ms2
  /\ apiUrl' = url2
  /\ mockTimer' = MockEffect(mockTimer, mode, running, intervalMs, m2, r2, ms2)
  /\ apiTimer' = ApiEffect(apiTimer, mode, running, intervalMs, apiUrl,
                           m2, r2, ms2, url2)

----------------------------------------------------------------------------
(* Inputs of the control surface *)

\* values typed into the interval field (e.target.value), in ms
IntervalInputs ==
  {JEmpty, JNumeric(0), JNumeric(0 - 5), JNumeric(100), JNumeric(1000),
   JNumeric(6000)}

\* the cleared field and one typed value
FewIntervalInputs == {JEmpty, JNumeric(100)}

\* Number(e.target.value) || 800
IntervalFromInput(j) ==
  IF Number(j).nan \/ Number(j).v = 0 THEN DefaultIntervalMs ELSE Number(j).v

ApiUrls == {DefaultApiUrl, "https://your-api.com/latest"}

Modes == {"mock", "api"}

----------------------------------------------------------------------------
(* Initial state: the first render and its effects *)

Init ==
  /\ mode = "mock"
  /\ apiUrl = DefaultApiUrl
  /\ intervalMs = DefaultIntervalMs
  /\ running = TRUE
  /\ latest = EmptyLatest
  /\ rows = << >>
  /\ baseRef = [id \in {SENSOR_IDS[i] : i \in DOMAIN SENSOR_IDS} |->
                  InitialBaseline]
  /\ seqRef = 0
  /\ mockTimer = SetInterval(DefaultIntervalMs, "")
  /\ apiTimer = NoTimer
  /\ inflight = << >>
  /\ now = 0
  /\ downloaded = << >>
  /\ rowTicks = << >>

\* baselines the generator may hold after a long run: the initial ones, and
\* ones one perturbation away from the upper or the lower bounds
GeneratorBaselines ==
  { InitialBaseline,
    [p |-> 11990000, t |-> 4490000, h |-> 8990000],
    [p |-> 9010000, t |-> 1810000, h |-> 2010000] }

\* the state after a run that left such baselines and a reset
InitGenerator ==
  /\ mode = "mock"
  /\ apiUrl = DefaultApiUrl
  /\ intervalMs = DefaultIntervalMs
  /\ running = TRUE
  /\ latest = EmptyLatest
  /\ rows = << >>
  /\ \E b \in GeneratorBaselines :
       baseRef = [id \in {SENSOR_IDS[i] : i \in DOMAIN SENSOR_IDS} |-> b]
  /\ seqRef = 0
  /\ mockTimer = SetInterval(DefaultIntervalMs, "")
  /\ apiTimer = NoTimer
  /\ inflight = << >>
  /\ now = 0
  /\ downloaded = << >>
  /\ rowTicks = << >>

----------------------------------------------------------------------------
(* Timer callbacks *)

\* the mock timer fires, the clock having advanced: perturb the baselines,
\* build the batch, merge it
MockTickWithin(streams, limit) ==
  /\ mockTimer.armed
  /\ now < limit
  /\ now' = now + 1
  /\ \E k \in streams :
       LET base  == Perturbed(baseRef, k)
           batch == MockBatch(base, seqRef, nowISO(now'))
       IN  /\ baseRef' = base
           /\ seqRef' = seqRef + Len(batch)
           /\ latest' = MergeLatest(latest, batch)
           /\ rows' = MergeRows(rows, batch)
           /\ rowTicks' = MergeRows(rowTicks, [i \in DOMAIN batch |-> now'])
  /\ UNCHANGED <<mode, apiUrl, intervalMs, running, mockTimer, apiTimer,
                 inflight, downloaded>>

\* the mock timer fires within the firings explored
MockTick(streams) == MockTickWithin(streams, MaxTicks)

\* the api timer fires: the async callback calls fetch(apiUrl) and suspends
ApiTick ==
  /\ apiTimer.armed
  /\ now < MaxTicks
  /\ Len(inflight) < MaxInFlight
  /\ now' = now + 1
  /\ inflight' = Append(inflight, [tick |-> now', url |-> apiTimer.url])
  /\ UNCHANGED <<mode, apiUrl, intervalMs, running, latest, rows, baseRef,
                 seqRef, mockTimer, apiTimer, downloaded, rowTicks>>

\* inflight without its i-th callback
Settled(i) == SubSeq(inflight, 1, i - 1) \o SubSeq(inflight, i + 1, Len(inflight))

\* a catch block that stops the schedule
FetchFailsStopsTimer ==
  /\ \E i \in DOMAIN inflight : inflight' = Settled(i)
  /\ apiTimer' = NoTimer
  /\ UNCHANGED <<mode, apiUrl, intervalMs, running, latest, rows, baseRef,
                 seqRef, mockTimer, now, downloaded, rowTicks>>

\* a suspended callback resumes in its catch block: fetch rejected, or
\* res.json() rejected
FetchFails ==
  /\ \E i \in DOMAIN inflight : inflight' = Settled(i)
  /\ UNCHANGED <<mode, apiUrl, intervalMs, running, latest, rows, baseRef,
                 seqRef, mockTimer, apiTimer, now, downloaded, rowTicks>>

\* the i-th suspended callback resumes after `await res.json()` with the
\* parsed body of response o, whatever its status, and runs to its end: an
\* exception thrown on the way (data is null, or an element of readings is
\* null) is caught after the increments already made by the map callback
CompletesWith(i, o) ==
  LET data     == o.data
      readings == ReadingsOf(data)
      thrown   == ThrowsAt(readings)
      batch    == ApiBatch(readings, seqRef, BatchTs(data))
  IN  /\ inflight' = Settled(i)
      /\ IF data.ty = "null"
         THEN UNCHANGED <<seqRef, latest, rows, rowTicks>>
         ELSE IF thrown > 0
         THEN /\ seqRef' = seqRef + thrown
              /\ UNCHANGED <<latest, rows, rowTicks>>
         ELSE /\ seqRef' = seqRef + Len(batch)
              /\ latest' = MergeLatest(latest, batch)
              /\ rows' = MergeRows(rows, batch)
              /\ rowTicks' = MergeRows(rowTicks,
                                       [n \in DOMAIN batch |-> inflight[i].tick])
      /\ UNCHANGED <<mode, apiUrl, intervalMs, running, baseRef, mockTimer,
                     apiTimer, now, downloaded>>

\* a fetch of an endpoint that answers with one of `responses` completes
FetchCompletes(responses) ==
  \E i \in DOMAIN inflight, o \in responses : CompletesWith(i, o)

----------------------------------------------------------------------------
(* Event handlers of the control surface *)

\* reset() without the assignment to seqRef.current
ResetKeepsCounter ==
  /\ latest' = EmptyLatest
  /\ rows' = << >>
  /\ rowTicks' = << >>
  /\ UNCHANGED <<mode, apiUrl, intervalMs, running, baseRef, seqRef,
                 mockTimer, apiTimer, inflight, now, downloaded>>

\* reset()
reset ==
  /\ latest' = EmptyLatest
  /\ rows' = << >>
  /\ rowTicks' = << >>
  /\ seqRef' = 0
  /\ UNCHANGED <<mode, apiUrl, intervalMs, running, baseRef, mockTimer,
                 apiTimer, inflight, now, downloaded>>

\* exportCSV(): the file handed to download()
exportCSV ==
  /\ downloaded' = toCSV(Reversed(rows))
  /\ UNCHANGED <<mode, apiUrl, intervalMs, running, latest, rows, baseRef,
                 seqRef, mockTimer, apiTimer, inflight, now, rowTicks>>

\* the Pause/Start button: setRunning(s => !s)
ToggleRunning ==
  /\ Render(mode, ~running, intervalMs, apiUrl)
  /\ UNCHANGED <<latest, rows, baseRef, seqRef, inflight, now, downloaded,
                 rowTicks>>

\* the mode select: setMode(e.target.value)
SetMode ==
  /\ \E m \in Modes : Render(m, running, intervalMs, apiUrl)
  /\ UNCHANGED <<latest, rows, baseRef, seqRef, inflight, now, downloaded,
                 rowTicks>>

\* the interval field: setIntervalMs(Number(e.target.value) || 800)
SetIntervalMs(inputs) ==
  /\ \E j \in inputs :
       Render(mode, running, IntervalFromInput(j), apiUrl)
  /\ UNCHANGED <<latest, rows, baseRef, seqRef, inflight, now, downloaded,
                 rowTicks>>

\* the API URL field, rendered only in api mode: setApiUrl(e.target.value)
SetApiUrl ==
  /\ mode = "api"
  /\ \E u \in ApiUrls : Render(mode, running, intervalMs, u)
  /\ UNCHANGED <<latest, rows, baseRef, seqRef, inflight, now, downloaded,
                 rowTicks>>

----------------------------------------------------------------------------

\* the engine with every response short of the large one
Next ==
  \/ MockTick(1..NumStreams)
  \/ ApiTick
  \/ FetchFails
  \/ FetchCompletes(Responses)
  \/ reset
  \/ ToggleRunning
  \/ SetMode
  \/ SetIntervalMs(FewIntervalInputs)
  \/ SetApiUrl

Spec == Init /\ [][Next]_vars

\* the engine under every input of the control surface
NextControl ==
  \/ MockTick({1})
  \/ ApiTick
  \/ FetchFails
  \/ FetchCompletes(GoodResponses)
  \/ reset
  \/ ToggleRunning
  \/ SetMode
  \/ SetIntervalMs(IntervalInputs)
  \/ SetApiUrl

SpecControl == Init /\ [][NextControl]_vars

\* the engine fed responses larger than the history
NextBulk ==
  \/ MockTick({1})
  \/ ApiTick
  \/ FetchFails
  \/ FetchCompletes(BulkResponses)
  \/ reset
  \/ ToggleRunning
  \/ SetMode
  \/ SetIntervalMs({JNumeric(100)})
  \/ SetApiUrl

SpecBulk == Init /\ [][NextBulk]_vars

\* the synthetic generator running alone
NextSynthetic == MockTickWithin(1..NumStreams, SyntheticTicks)

\* from the initial state
SpecSynthetic == Init /\ [][NextSynthetic]_vars

\* from baselines near their bounds
SpecGenerator == InitGenerator /\ [][NextSynthetic]_vars

\* the engine with its export button
NextExport ==
  \/ MockTick({1})
  \/ ApiTick
  \/ FetchFails
  \/ FetchCompletes(GoodResponses)
  \/ reset
  \/ ToggleRunning
  \/ SetMode
  \/ exportCSV

SpecExport == Init /\ [][NextExport]_vars

\* the engine polling an endpoint that fails at times
NextLive ==
  \/ MockTick({1})
  \/ ApiTick
  \/ FetchFails
  \/ FetchCompletes(FlakyResponses)
  \/ reset
  \/ ToggleRunning
  \/ SetMode

\* an armed interval timer keeps firing, and every fetch settles
SpecLive ==
  /\ Init
  /\ [][NextLive]_vars
  /\ WF_vars(ApiTick)
  /\ WF_vars(FetchFails \/ FetchCompletes(FlakyResponses))

----------------------------------------------------------------------------
(* Properties *)

Range(f) == {f[x] : x \in DOMAIN f}

\* C1: in every reachable state the history log holds at most 200 readings,
\* whatever the sizes of the batches merged (also above the capacity).
C1_HistoryBounded == Len(rows) <= HistoryCap

\* the log is full after more readings than it holds were merged into it
C1_Witness == Len(rows) = HistoryCap /\ seqRef > HistoryCap

\* C2: no two readings of the history log share a sequence number, no
\* reading carries a number above the counter, and every step other than a
\* reset keeps the counter from decreasing and gives each reading it adds
\* to the log a number above the counter's value before the step.
C2_SequenceStep ==
  /\ \A i, j \in DOMAIN rows' : rows'[i].seq = rows'[j].seq => i = j
  /\ \A i \in DOMAIN rows' : rows'[i].seq \in 1..seqRef'
  /\ \/ seqRef' = 0 /\ rows' = << >>
     \/ /\ seqRef' >= seqRef
        /\ \A r \in Range(rows') \ Range(rows) : r.seq > seqRef

C2_SequencesIncreaseUnique == [][C2_SequenceStep]_vars

\* after a synthetic tick has filled the window, a reset has emptied it and
\* the fetch of a later tick has completed: the log holds remote readings
\* only, numbered from 1
C2_Witness ==
  /\ baseRef["S1"] # InitialBaseline
  /\ inflight = << >>
  /\ rows # << >>
  /\ \A i \in DOMAIN rows : rows[i].ts = RemoteTs
  /\ rows[Len(rows)].seq = 1

\* C3: at most one remote fetch is in flight at any time.
C3_SingleFlight == Len(inflight) <= 1

\* C4: the completion of a fetch while the mode is Synthetic (the fetch was
\* started in Remote mode and the mode switched since) changes neither
\* latestBySensor, nor historyLog, nor the sequence counter.
C4_LateResultDiscarded ==
  [][(mode = "mock" /\ FetchCompletes(Responses))
       => UNCHANGED <<latest, rows, seqRef>>]_vars

\* an element of readings whose p, t and h all coerce to a number
IsValidEntry(e) ==
  e.ty = "object" /\ ~Number(e.p).nan /\ ~Number(e.t).nan /\ ~Number(e.h).nan

\* responses with 200 OK whose readings are objects, one of them invalid
MixedResponses ==
  {o \in Responses :
     /\ o.status = 200
     /\ o.data.ty = "object"
     /\ \A i \in DOMAIN ReadingsOf(o.data) : ReadingsOf(o.data)[i].ty = "object"
     /\ \E i \in DOMAIN ReadingsOf(o.data) : ~IsValidEntry(ReadingsOf(o.data)[i])}

\* C5: the completion of a fetch whose response mixes valid and invalid
\* entries merges exactly the valid entries, in input order: they are
\* numbered and folded into latestBySensor and historyLog as a batch of
\* their own (so a response whose only entry is invalid changes nothing).
C5_InvalidEntriesDropped ==
  [][\A i \in DOMAIN inflight, o \in MixedResponses :
       CompletesWith(i, o) =>
         LET valid == SelectSeq(ReadingsOf(o.data), IsValidEntry)
             batch == ApiBatch(valid, seqRef, BatchTs(o.data))
         IN  /\ rows' = MergeRows(rows, batch)
             /\ latest' = MergeLatest(latest, batch)]_vars

\* responses the remote tick fails on: a status other than 2xx, a body that
\* is no object, an element of readings that throws while it is mapped
FailedResponses ==
  {o \in Responses :
     \/ o.status \notin 200..299
     \/ o.data.ty = "null"
     \/ ThrowsAt(ReadingsOf(o.data)) > 0}

\* C6: a remote tick that fails is a no-op: the completion of a fetch with a
\* failed response leaves latestBySensor, historyLog and the sequence
\* counter as they were.
C6_FailedTickNoOp ==
  [][FetchCompletes(FailedResponses) => UNCHANGED <<latest, rows, seqRef>>]_vars

\* C7: reset leaves latestBySensor empty, historyLog empty and the sequence
\* counter at 0, and changes neither the run/pause state, nor the mode, nor
\* the interval, nor the endpoint (nor the timer armed for them).
C7_ResetClears ==
  [][reset =>
       /\ latest' = EmptyLatest
       /\ rows' = << >>
       /\ seqRef' = 0
       /\ UNCHANGED <<running, mode, intervalMs, apiUrl, mockTimer, apiTimer>>]_vars

\* a reset has emptied a window filled by a synthetic tick, while the engine
\* is paused in Remote mode with a fetch pending
C7_Witness ==
  /\ baseRef["S1"] # InitialBaseline
  /\ latest = EmptyLatest
  /\ rows = << >>
  /\ seqRef = 0
  /\ ~running
  /\ mode = "api"
  /\ inflight # << >>

\* the readings a step puts in front of the history log
Prepended == {rows'[i] : i \in 1..(Len(rows') - Len(rows))}

\* C8: a step that merges a batch leaves latestBySensor[X] as it was for
\* every sensor X without a reading in the batch, and sets latestBySensor[Y]
\* to a reading of the batch for every sensor Y with one.
C8_MergeFrame ==
  [][(Len(rows') >= Len(rows) /\ Len(rows') < HistoryCap) =>
       \A X \in DOMAIN latest \cup DOMAIN latest' :
         IF \E r \in Prepended : r.sensor = X
         THEN /\ X \in DOMAIN latest'
              /\ latest'[X] \in Prepended
              /\ latest'[X].sensor = X
         ELSE /\ X \in DOMAIN latest
              /\ X \in DOMAIN latest'
              /\ latest'[X] = latest[X]]_vars

\* latestBySensor holds the reading of a sensor from the newest batch next
\* to the reading of another sensor kept from an older batch
C8_Witness ==
  \E X, Y \in DOMAIN latest :
    /\ latest[Y] = rows[1]
    /\ latest[X].ts # latest[Y].ts
    /\ \A i \in DOMAIN rows : rows[i].ts = latest[Y].ts => rows[i].sensor # X

\* at most one timer is armed, only while Running, and it is the timer of
\* the current mode, interval and endpoint
TimerOfCurrentSchedule ==
  /\ ~(mockTimer.armed /\ apiTimer.armed)
  /\ (mockTimer.armed \/ apiTimer.armed) => running
  /\ mockTimer.armed => mode = "mock" /\ mockTimer.ms = intervalMs
  /\ apiTimer.armed =>
       mode = "api" /\ apiTimer.ms = intervalMs /\ apiTimer.url = apiUrl

\* a step in which a timer fires is a tick of the current schedule: the
\* engine is Running and the tick is a synthetic one in Synthetic mode, or a
\* fetch of the current endpoint in Remote mode
TickOfCurrentSchedule ==
  now' # now =>
    /\ running
    /\ \/ mode = "mock" /\ inflight' = inflight
       \/ /\ mode = "api"
          /\ Len(inflight') = Len(inflight) + 1
          /\ inflight'[Len(inflight')].url = apiUrl

\* C9: in every reachable state at most one timer is armed, only while the
\* engine is Running and for the current mode, interval and endpoint; no
\* tick of a previous schedule fires after a pause or a change of them.
C9_OneCurrentTimer ==
  [][TimerOfCurrentSchedule' /\ TickOfCurrentSchedule]_vars

\* after a switch to Remote mode and a change of interval and endpoint, a
\* tick of the new schedule has started a fetch of the new endpoint
C9_Witness ==
  /\ mode = "api"
  /\ running
  /\ intervalMs # DefaultIntervalMs
  /\ apiUrl # DefaultApiUrl
  /\ apiTimer = SetInterval(intervalMs, apiUrl)
  /\ inflight # << >>
  /\ inflight[Len(inflight)].url = apiUrl
  /\ inflight[Len(inflight)].tick = now

\* C10: the stored interval is always within [200, 5000] ms.
C10_IntervalClamped ==
  /\ intervalMs \in 200..5000
  /\ mockTimer.armed => mockTimer.ms \in 200..5000
  /\ apiTimer.armed => apiTimer.ms \in 200..5000

\* C11: latestBySensor holds, under each sensor id present, a reading of
\* that sensor, and it is the reading with the greatest sequence number
\* among the readings of that sensor merged since the last reset (which the
\* history log holds in full while it is below its capacity); every sensor
\* with a reading merged is present.
C11_LatestIsNewest ==
  Len(rows) < HistoryCap =>
    /\ \A s \in DOMAIN latest :
         /\ latest[s].sensor = s
         /\ latest[s] \in Range(rows)
         /\ \A i \in DOMAIN rows :
              rows[i].sensor = s => rows[i].seq <= latest[s].seq
    /\ \A i \in DOMAIN rows : rows[i].sensor \in DOMAIN latest

\* one batch has put two readings of a sensor in the log, and the later of
\* the two is the one in latestBySensor
C11_Witness ==
  \E i \in DOMAIN rows :
    /\ i + 1 \in DOMAIN rows
    /\ rows[i].sensor = rows[i + 1].sensor
    /\ rows[i + 1].seq = rows[i].seq + 1
    /\ rows[i].p # rows[i + 1].p
    /\ latest[rows[i].sensor] = rows[i + 1]

\* C12: after any number of synthetic ticks and for any perturbations, every
\* sensor's baseline has 90 <= pressure <= 120, 18 <= temperature <= 45 and
\* 20 <= humidity <= 90.
C12_BaselineBounded ==
  \A id \in DOMAIN baseRef :
    /\ baseRef[id].p \in (90 * Scale)..(120 * Scale)
    /\ baseRef[id].t \in (18 * Scale)..(45 * Scale)
    /\ baseRef[id].h \in (20 * Scale)..(90 * Scale)

\* the pressure of S1 sits at its upper bound, and the two newest batches
\* both emitted it there: the field stayed at the bound over a tick
C12_Witness ==
  /\ baseRef["S1"].p = 120 * Scale
  /\ baseRef["S1"].t = 45 * Scale
  /\ Len(rows) >= 2 * Len(SENSOR_IDS)
  /\ rows[1].sensor = "S1" /\ rows[1].p = toFixed2(120 * Scale)
  /\ rows[1 + Len(SENSOR_IDS)].sensor = "S1"
  /\ rows[1 + Len(SENSOR_IDS)].p = toFixed2(120 * Scale)

\* C14: from the initial state, after N >= 1 synthetic ticks and nothing
\* else, the history log has min(k * N, 200) readings and latestBySensor has
\* the k sensors as its keys, with the sequences k*(N-1)+1 .. k*N.
C14_AfterNTicks ==
  LET k == Len(SENSOR_IDS)
  IN  now >= 1 =>
        /\ Len(rows) = Min(k * now, HistoryCap)
        /\ DOMAIN latest = {SENSOR_IDS[i] : i \in DOMAIN SENSOR_IDS}
        /\ {latest[s].seq : s \in DOMAIN latest} = (k * (now - 1) + 1)..(k * now)

\* three ticks of the four sensors: 12 readings, the latest numbered 9..12
C14_Witness ==
  /\ now = 3
  /\ Len(rows) = 12
  /\ Cardinality(DOMAIN latest) = 4
  /\ {latest[s].seq : s \in DOMAIN latest} = 9..12

\* the header row of an export
CsvHeader ==
  <<Bare("timestamp"), Bare("sensor"), Bare("pressure_kPa"), Bare("temp_C"),
    Bare("humidity_pct")>>

\* C13: an export produces the header row followed by one row per history
\* entry, the last entry of the log first, each row carrying the entry's
\* timestamp, sensor, pressure, temperature and humidity; an empty log gives
\* the header alone; the export leaves the history log as it was.
C13_ExportReversed ==
  [][downloaded' # downloaded =>
       /\ rows' = rows
       /\ Len(downloaded') = Len(rows) + 1
       /\ downloaded'[1] = CsvHeader
       /\ \A n \in DOMAIN rows :
            LET r == rows[Len(rows) + 1 - n]
            IN  downloaded'[n + 1] =
                  <<Quoted(r.ts), Quoted(r.sensor), Quoted(r.p), Quoted(r.t),
                    Quoted(r.h)>>]_vars

\* a log of readings from two batches has been exported and is still there:
\* the first data row is the log's last reading, the last its first
C13_Witness ==
  /\ Len(rows) >= 2
  /\ rows[1].ts # rows[Len(rows)].ts
  /\ Len(downloaded) = Len(rows) + 1
  /\ downloaded[2][1] = Quoted(rows[Len(rows)].ts)
  /\ downloaded[Len(downloaded)][1] = Quoted(rows[1].ts)

\* C15: while the engine stays paused, a window that is empty with its
\* counter at 0 (as a reset leaves it) stays so: no merge happens while
\* Idle, and the first reading merged after the next start has sequence 1.
C15_EmptyWhilePaused ==
  [][(~running /\ ~running' /\ rows = << >> /\ seqRef = 0)
       => (rows' = << >> /\ seqRef' = 0)]_vars

\* responses with an object body whose readings are absent, no array, or an
\* empty array
EmptyResponses ==
  {o \in Responses :
     /\ o.data.ty = "object"
     /\ o.data.readings.ty # "array" \/ o.data.readings.items = << >>}

\* C16: merging an empty batch is a no-op: the completion of a fetch whose
\* readings are absent, no list or an empty list leaves latestBySensor,
\* historyLog and the sequence counter as they were.
C16_EmptyBatchNoOp ==
  [][FetchCompletes(EmptyResponses) => UNCHANGED <<latest, rows, seqRef>>]_vars

\* two remote ticks have fired and both fetches are over; the first merged
\* one reading, the second left the window as it was
C16_Witness ==
  /\ now = 2
  /\ baseRef["S1"] = InitialBaseline
  /\ inflight = << >>
  /\ rowTicks = <<1>>
  /\ seqRef = 1
  /\ DOMAIN latest = {rows[1].sensor}

\* C17: the history log is newest-first by tick: of two readings produced
\* by different ticks, the one of the later tick is nearer the front.
C17_NewestTickFirst ==
  \A i, j \in DOMAIN rowTicks : i < j => rowTicks[i] >= rowTicks[j]

\* the sequence numbers a merge step discards: those in the log before it
\* or assigned by it, and not in the log after it
DiscardedSeqs ==
  ({rows[i].seq : i \in DOMAIN rows} \cup (seqRef + 1)..seqRef')
    \ {rows'[i].seq : i \in DOMAIN rows'}

\* C18: whenever a merge discards readings, every reading discarded has a
\* smaller sequence number than every reading that remains in the log.
C18_OldestEvictedFirst ==
  [][seqRef' > seqRef =>
       \A d \in DiscardedSeqs :
         \A i \in DOMAIN rows' : d < rows'[i].seq]_vars

\* C19: latestBySensor is empty exactly when historyLog is empty, and the
\* sequence counter is 0 whenever both are empty.
C19_NoTornWindow ==
  /\ latest = EmptyLatest <=> rows = << >>
  /\ (latest = EmptyLatest /\ rows = << >>) => seqRef = 0

\* C20: a failed remote tick never stops the schedule: a fetch that fails
\* leaves the timer, the run state and the mode as they were; while the
\* timer stays armed a later tick fires (within the firings explored); and
\* a successful response that completes is merged.
C20_FailureKeepsSchedule ==
  /\ [][(FetchFails \/ FetchCompletes(FailedResponses \cap FlakyResponses))
          => UNCHANGED <<apiTimer, mockTimer, running, mode>>]_vars
  /\ \A n \in 0..(MaxTicks - 1) :
       (apiTimer.armed /\ now = n) ~> (now > n \/ ~apiTimer.armed)
  /\ [][FetchCompletes({Response(200, GoodBody)}) => rows' # rows]_vars

\* the fetch of the first remote tick is over and merged nothing, the timer
\* is still armed, and the response to the second tick's fetch is merged
C20_Witness ==
  /\ now = 2
  /\ baseRef["S1"] = InitialBaseline
  /\ apiTimer.armed
  /\ inflight = << >>
  /\ rowTicks = <<2>>
  /\ seqRef = 1

====
